---- MODULE Spec2Model ----
(***************************************************************************)
(* nodemigo: Router (lib/router.js) and Controller (src/controller.js,     *)
(* lib/controller.js).  Controllers declare routes; addControllerRoutes    *)
(* connects one middleware chain per route to an Express router; every     *)
(* request runs the stages of the chain of the route it matches.           *)
(***************************************************************************)
EXTENDS Integers, Sequences, FiniteSets, TLC

\* ---------------------------------------------------------------- bounds
MaxControllers == 2
MaxRoutes == 2
MaxCalls == 2

\* ------------------------------------------------------------ JS values
Undefined == "undefined"

SeqsUpTo(S, n) == UNION {[1..k -> S] : k \in 0..n}

\* String.prototype.toLowerCase on the strings the model uses
toLowerCase(s) ==
  CASE s = "GET" -> "get"
    [] s = "POST" -> "post"
    [] s = "PUT" -> "put"
    [] s = "PATCH" -> "patch"
    [] s = "ALL" -> "all"
    [] s = "/A" -> "/a"
    [] OTHER -> s

\* JS values whose type matters: undefined, NaN, numbers, strings (as characters)
JUndef == [t |-> "undefined"]
JNaN == [t |-> "NaN"]
JNum(n) == [t |-> "number", v |-> n]
JStr(cs) == [t |-> "string", v |-> cs]

\* ToBoolean
truthy(x) ==
  CASE x.t = "number" -> x.v # 0
    [] x.t = "string" -> x.v # <<>>
    [] OTHER -> FALSE

\* a || b
or(a, b) == IF truthy(a) THEN a ELSE b

DigitVal == [c \in {"0", "1", "2", "3", "4", "5", "6", "7", "8", "9"} |->
  CASE c = "0" -> 0 [] c = "1" -> 1 [] c = "2" -> 2 [] c = "3" -> 3 [] c = "4" -> 4
    [] c = "5" -> 5 [] c = "6" -> 6 [] c = "7" -> 7 [] c = "8" -> 8 [] c = "9" -> 9]

\* The digits at the front of cs, read in base 10; acc is the value so far
RECURSIVE leadingDigits(_, _, _)
leadingDigits(cs, acc, seen) ==
  IF cs # <<>> /\ Head(cs) \in DOMAIN DigitVal
  THEN leadingDigits(Tail(cs), 10 * acc + DigitVal[Head(cs)], TRUE)
  ELSE [seen |-> seen, val |-> acc]

RECURSIVE trimLeft(_)
trimLeft(cs) == IF cs # <<>> /\ Head(cs) = " " THEN trimLeft(Tail(cs)) ELSE cs

\* _.parseInt(x): radix 10, leading whitespace and sign, trailing text ignored
parseInt(x) ==
  CASE x.t = "number" -> x
    [] x.t = "string" ->
         LET cs == trimLeft(x.v)
             neg == cs # <<>> /\ Head(cs) = "-"
             body == IF cs # <<>> /\ Head(cs) \in {"-", "+"} THEN Tail(cs) ELSE cs
             d == leadingDigits(body, 0, FALSE)
         IN IF d.seen THEN JNum(IF neg THEN 0 - d.val ELSE d.val) ELSE JNaN
    [] OTHER -> JNaN

\* Array.prototype.join on token sequences
RECURSIVE join(_, _)
join(xs, sep) ==
  IF xs = <<>> THEN <<>>
  ELSE IF Len(xs) = 1 THEN Head(xs)
  ELSE Head(xs) \o <<sep>> \o join(Tail(xs), sep)

\* ------------------------------------------------------------- variables
VARIABLES
  controllers,   \* router.controllers, in insertion order
  routes,        \* router.routes
  stack,         \* the route layers connected to the Express router
  calls,         \* number of calls of addControllerRoutes so far
  ctl,           \* per controller: the fields the middleware stores on `this`
  req            \* per request slot: req, res and the position in the chain

vars == <<controllers, routes, stack, calls, ctl, req>>

\* ------------------------------------------------------ parsing middleware
\* fields.replace(/\s+/g, '').replace(/,/g, ' ')
RECURSIVE selectOf(_)
selectOf(cs) ==
  IF cs = <<>> THEN <<>>
  ELSE IF Head(cs) = " " THEN selectOf(Tail(cs))
  ELSE <<IF Head(cs) = "," THEN " " ELSE Head(cs)>> \o selectOf(Tail(cs))

\* switch (req.query.order)
orderOf(order) ==
  IF order \in {JStr(<<"-", "1">>), JStr(<<"d", "e", "s", "c">>)} THEN 0 - 1 ELSE 1

\* sort[req.query.sort] = order on the object `sort`
assignSort(sort, query) ==
  IF truthy(query.sort)
  THEN {p \in sort : p[1] # query.sort.v} \cup {<<query.sort.v, orderOf(query.order)>>}
  ELSE sort

\* (page - 1) * limit when page > 0
skipOf(skip, limit, page) ==
  IF page.t = "number" /\ page.v > 0 THEN JNum((page.v - 1) * limit.v) ELSE skip

\* src/controller.js parseFields(req): returns the selection
parseFields(query) ==
  IF query.fields.t = "string" THEN JStr(selectOf(query.fields.v)) ELSE JUndef

\* src/controller.js parseSkipLimitSortOrder(req): returns { skip, limit, page, sort }
parseSkipLimitSortOrder(query) ==
  LET skip == or(parseInt(or(query.skip, query.offset)), JNum(0))
      limit == or(parseInt(or(query.limit, query.count)), JNum(0))
      page == or(parseInt(query.page), JNum(0))
  IN [skip |-> skipOf(skip, limit, page), limit |-> limit, page |-> page,
      sort |-> assignSort({}, query)]

\* lib/controller.js constructor: this.sort = {}; this.select = null
newController == [skip |-> JUndef, limit |-> JUndef, page |-> JUndef,
                  sort |-> {}, select |-> [t |-> "null"]]

\* lib/controller.js parseFields(req, res, next): stores on this.select
thisParseFields(this, query) ==
  IF query.fields.t = "string"
  THEN [this EXCEPT !.select = JStr(selectOf(query.fields.v))]
  ELSE this

\* lib/controller.js parseSkipLimitSortOrder(req, res, next): stores on this
thisParseSkipLimitSortOrder(this, query) ==
  LET skip == or(parseInt(or(query.skip, query.offset)), JNum(0))
      limit == or(parseInt(or(query.limit, query.count)), JNum(0))
      page == parseInt(query.page)
  IN [this EXCEPT !.skip = skipOf(skip, limit, page), !.limit = limit, !.page = page,
                  !.sort = assignSort(this.sort, query)]

\* ------------------------------------------------- Controller (constructor)
\* Faulty variant: the error stage ahead of the success stage
endStageErrorFirst ==
  << [group |-> "_end", fn |-> "errorResponse"],
     [group |-> "_end", fn |-> "successResponse"],
     [group |-> "_end", fn |-> "finalResponse"] >>

\* this._end = [successResponse, errorResponse, finalResponse]
endStage ==
  << [group |-> "_end", fn |-> "successResponse"],
     [group |-> "_end", fn |-> "errorResponse"],
     [group |-> "_end", fn |-> "finalResponse"] >>

\* A route as a controller declares it
Route(method, path) ==
  [method |-> method, path |-> path, action |-> TRUE, middleware |-> <<>>,
   sanitizer |-> FALSE, validator |-> FALSE, blacklist |-> {}, whitelist |-> {}]

\* A controller instance: routes plus controller-scoped middleware; revision
\* tells which of the repository's Controller classes it instantiates
Controller(rs) ==
  [routes |-> rs, pre |-> <<>>, before |-> <<>>, after |-> <<>>,
   begin |-> <<>>, end |-> endStage, revision |-> "src"]

\* -------------------------------------------------------- errorResponse
\* Tokens of an error message that carry the duplicate-key marker
E11000Tokens == {"E11000 duplicate key error"}

\* /E11000/.test(err.message)
testE11000(message) == \E i \in 1..Len(message) : message[i] \in E11000Tokens

MetaUndefined == [k |-> "undefined"]

\* ve => `[${ve.param} -> ${ve.msg}]`
validationToken(ve) == <<"[", ve.param, " -> ", ve.msg, "]">>

\* Faulty variant: the fallback branch without `|| 500`
fallbackErrorNoDefault(err) ==
  [message |-> IF err.message # <<>> THEN err.message ELSE <<"Internal Server Error">>,
   statusCode |-> parseInt(err.statusCode),
   type |-> Undefined,
   meta |-> MetaUndefined]

\* The fallback branch: err.message || 'Internal Server Error',
\* _.parseInt(err.statusCode) || 500
fallbackError(err) ==
  [message |-> IF err.message # <<>> THEN err.message ELSE <<"Internal Server Error">>,
   statusCode |-> or(parseInt(err.statusCode), JNum(500)),
   type |-> Undefined,
   meta |-> MetaUndefined]

\* Faulty variant: the ValidationError test ahead of the duplicate-key test
classifyValidationFirst(err, verrs) ==
  IF err.name = "ValidationError"
  THEN [message |-> join(err.errors, ", "), statusCode |-> JNum(400),
        type |-> "MONGOOSE_VALIDATION_ERROR",
        meta |-> [k |-> "errors", v |-> err.errors]]
  ELSE IF testE11000(err.message)
  THEN [message |-> <<"Conflict">>, statusCode |-> JNum(409),
        type |-> "MONGODB_E11000", meta |-> MetaUndefined]
  ELSE IF Len(verrs) > 0
  THEN [message |-> join([i \in 1..Len(verrs) |-> validationToken(verrs[i])], ", "),
        statusCode |-> JNum(400),
        type |-> "EXPRESS_VALIDATION_ERROR",
        meta |-> [k |-> "validationErrors", v |-> verrs]]
  ELSE fallbackError(err)

\* The if / else-if cascade that fills `error` from `err` and req.validationErrors()
classify(err, verrs) ==
  IF testE11000(err.message)
  THEN [message |-> <<"Conflict">>, statusCode |-> JNum(409),
        type |-> "MONGODB_E11000", meta |-> MetaUndefined]
  ELSE IF err.name = "ValidationError"
  THEN [message |-> join(err.errors, ", "), statusCode |-> JNum(400),
        type |-> "MONGOOSE_VALIDATION_ERROR",
        meta |-> [k |-> "errors", v |-> err.errors]]
  ELSE IF Len(verrs) > 0
  THEN [message |-> join([i \in 1..Len(verrs) |-> validationToken(verrs[i])], ", "),
        statusCode |-> JNum(400),
        type |-> "EXPRESS_VALIDATION_ERROR",
        meta |-> [k |-> "validationErrors", v |-> verrs]]
  ELSE fallbackError(err)

\* The cascade of the later revision of the class: it tests
\* req.validationErrors() only, and every other error takes the fallback branch
classifyRevised(err, verrs) ==
  IF Len(verrs) > 0
  THEN [message |-> join([i \in 1..Len(verrs) |-> validationToken(verrs[i])], ", "),
        statusCode |-> JNum(400),
        type |-> "EXPRESS_VALIDATION_ERROR",
        meta |-> [k |-> "validationErrors", v |-> verrs]]
  ELSE fallbackError(err)

\* if (err.stack) { try { error.line = err.stack.split('\n')[1].match(/at\s(.*)/)[1] }
\* catch (e) { error.line = null } }: a stack without a call-site line makes the
\* expression throw, and the catch swallows it
errorLine(err) ==
  CASE err.stack = "ok" -> [threw |-> FALSE, line |-> "at action (controller.js:1:1)"]
    [] err.stack = "bad" -> [threw |-> FALSE, line |-> "null"]
    [] OTHER -> [threw |-> FALSE, line |-> Undefined]

\* Faulty variant: the switch with a default per range of status codes
defaultErrorTypeBucketed(statusCode) ==
  CASE statusCode = JNum(400) -> "BAD_REQUEST"
    [] statusCode = JNum(401) -> "UNAUTHORIZED"
    [] statusCode \in {JNum(402), JNum(403)} -> "FORBIDDEN"
    [] statusCode = JNum(404) -> "NOT_FOUND"
    [] statusCode = JNum(405) -> "METHOD_NOT_ALLOWED"
    [] statusCode = JNum(406) -> "NOT_ACCEPTABLE"
    [] statusCode = JNum(409) -> "CONFLICT"
    [] statusCode = JNum(410) -> "GONE"
    [] statusCode = JNum(500) -> "INTERNAL_SERVER_ERROR"
    [] statusCode = JNum(501) -> "NOT_IMPLEMENTED"
    [] statusCode.t = "number" /\ statusCode.v \in 400..499 -> "UNKNOWN_CLIENT_ERROR"
    [] OTHER -> "UNKNOWN_SERVER_ERROR"

\* switch (error.statusCode)
defaultErrorType(statusCode) ==
  CASE statusCode = JNum(400) -> "BAD_REQUEST"
    [] statusCode = JNum(401) -> "UNAUTHORIZED"
    [] statusCode \in {JNum(402), JNum(403)} -> "FORBIDDEN"
    [] statusCode = JNum(404) -> "NOT_FOUND"
    [] statusCode = JNum(405) -> "METHOD_NOT_ALLOWED"
    [] statusCode = JNum(406) -> "NOT_ACCEPTABLE"
    [] statusCode = JNum(409) -> "CONFLICT"
    [] statusCode = JNum(410) -> "GONE"
    [] statusCode = JNum(501) -> "NOT_IMPLEMENTED"
    [] OTHER -> "INTERNAL_SERVER_ERROR"

\* The `error` that ends as res.error: the cascade, then
\* error.meta = err.meta || error.meta
classified(revision, err, verrs) ==
  LET error == IF revision = "revised" THEN classifyRevised(err, verrs)
               ELSE classify(err, verrs)
  IN [error EXCEPT !.meta = IF err.meta # Undefined THEN [k |-> "own", v |-> err.meta]
                             ELSE @]

\* const envelope = { meta: { statusCode, errorType, errorMessage }, data: {} }
errorEnvelope(revision, err, verrs) ==
  LET error == classified(revision, err, verrs)
      line == errorLine(err).line
  IN [kind |-> "error",
      meta |-> [statusCode |-> error.statusCode,
                errorType |-> IF error.type # Undefined THEN error.type
                              ELSE defaultErrorType(error.statusCode),
                errorMessage |-> error.message,
                errorLine |-> IF line \in {Undefined, "null"} THEN Undefined ELSE line],
      data |-> "{}"]

\* ------------------------------------------------------- successResponse
\* res.envelope = res.statusCode !== 204 ? envelope : undefined
successEnvelope(statusCode, data, paging) ==
  IF statusCode # JNum(204)
  THEN [kind |-> "success",
        meta |-> [statusCode |-> statusCode, paging |-> paging],
        data |-> IF data # Undefined THEN data ELSE "{}"]
  ELSE [kind |-> "undefined"]

\* --------------------------------------------------------- finalResponse
\* The representation res.format picks for the accept header
accepts(accept) ==
  CASE accept \in {"application/json", "*/*", Undefined} -> "json"
    [] accept = "application/xml" -> "xml"
    [] accept = "text/plain" -> "text"
    [] OTHER -> "default"

\* The characters of the request paths in use
charsOf(path) ==
  CASE path = "/a.json" -> <<"/", "a", ".", "j", "s", "o", "n">>
    [] path = "/ajson" -> <<"/", "a", "j", "s", "o", "n">>
    [] path = "/a.xml" -> <<"/", "a", ".", "x", "m", "l">>
    [] path = "/axml" -> <<"/", "a", "x", "m", "l">>
    [] path = "/xml" -> <<"/", "x", "m", "l">>
    [] path = "/a" -> <<"/", "a">>
    [] path = "/A" -> <<"/", "A">>
    [] OTHER -> <<"/", "b">>

\* /.word$/.test(cs): any one character, then the word, at the end
testDotWord(cs, word) ==
  /\ Len(cs) >= Len(word) + 1
  /\ SubSeq(cs, Len(cs) - Len(word) + 1, Len(cs)) = word
  /\ cs[Len(cs) - Len(word)] # "\n"

\* /.json$/ and /.xml$/ tested on req.path override req.headers.accept
acceptOverride(path, accept) ==
  IF testDotWord(charsOf(path), <<"j", "s", "o", "n">>) THEN "application/json"
  ELSE IF testDotWord(charsOf(path), <<"x", "m", "l">>) THEN "application/xml"
  ELSE accept

\* `this` inside the callbacks handed to res.format is the callbacks object,
\* which has no xmlBuilder
xmlBuilderOfThis == Undefined

\* Faulty variant: the default callback sends the envelope with the 406
formatWriteDefaultEnvelope(repr, statusCode, envelope, data) ==
  CASE repr \in {"json", "text"} ->
         [status |-> statusCode, body |-> envelope, type |-> "application/json"]
    [] repr = "xml" -> [status |-> JNum(500), body |-> [kind |-> "none"],
                        type |-> "application/xml"]
    [] OTHER -> [status |-> JNum(406), body |-> envelope, type |-> "text/html"]

\* What the chosen callback writes: status, body and content type
formatWrite(repr, statusCode, envelope, data) ==
  CASE repr = "json" -> [status |-> statusCode, body |-> envelope, type |-> "application/json"]
    [] repr = "xml" ->
         IF xmlBuilderOfThis = Undefined \/ data = Undefined
         THEN [status |-> JNum(500), body |-> [kind |-> "none"], type |-> "application/xml"]
         ELSE [status |-> statusCode, body |-> [kind |-> "xml", of |-> data],
               type |-> "application/xml; charset=utf-8"]
    [] repr = "text" -> [status |-> statusCode, body |-> envelope, type |-> "text/plain"]
    [] OTHER -> [status |-> JNum(406), body |-> [kind |-> "text", of |-> "Not Acceptable"],
                 type |-> "text/html"]

\* ------------------------------------------------------- addControllerRoutes
\* paths[path] === method: the de-duping test
isDuplicate(paths, path, method) == paths[path] = method

\* Faulty variant: the controller's before stage connected ahead of the route middleware
routeChainBeforeFirst(c, route) ==
  c.begin \o c.pre \o c.before \o route.middleware
    \o << [group |-> "handler", fn |-> "handler"] >>
    \o c.after \o c.end

\* router[method](path, _begin, pre, route.middleware || [], before, handler, after, _end)
routeChain(c, route) ==
  c.begin \o c.pre \o route.middleware \o c.before
    \o << [group |-> "handler", fn |-> "handler"] >>
    \o c.after \o c.end

\* The body of the inner forEach: one route of one controller
connectRoute(acc, ci, ri) ==
  LET route == controllers[ci].routes[ri] IN
  IF route.path = Undefined \/ ~route.action
  THEN acc
  ELSE LET method == IF route.method = Undefined THEN "get"
                     ELSE toLowerCase(route.method)
           path == toLowerCase(route.path)
       IN IF isDuplicate(acc.paths, path, method)
          THEN acc
          ELSE [paths |-> [acc.paths EXCEPT ![path] = method],
                routes |-> Append(acc.routes, [method |-> method, path |-> path]),
                stack |-> Append(acc.stack,
                            [method |-> method, path |-> path, ctrl |-> ci, route |-> ri,
                             chain |-> routeChain(controllers[ci], route)])]

RECURSIVE forEachRoute(_, _, _)
forEachRoute(acc, ci, ri) ==
  IF ci > Len(controllers) THEN acc
  ELSE IF ri > Len(controllers[ci].routes) THEN forEachRoute(acc, ci + 1, 1)
  ELSE forEachRoute(connectRoute(acc, ci, ri), ci, ri + 1)

LowerPaths == {"/a", "/b", "/a.json", "/a.xml", "/axml", "/ajson", "/xml"}

\* var paths = {} is local to every call; router.routes and the stack persist
addControllerRoutes ==
  /\ calls < MaxCalls
  /\ LET acc == forEachRoute([paths |-> [p \in LowerPaths |-> Undefined],
                              routes |-> routes, stack |-> stack], 1, 1)
     IN /\ routes' = acc.routes
        /\ stack' = acc.stack
  /\ calls' = calls + 1
  /\ UNCHANGED <<controllers, ctl, req>>

\* ----------------------------------------------------- Express dispatching
NoErr == [none |-> TRUE]

\* new Error('Validation Error.')
ValidationFailed ==
  [message |-> <<"Validation Error.">>, name |-> "Error", statusCode |-> JUndef,
   status |-> JUndef, code |-> JUndef, type |-> Undefined, errors |-> <<>>,
   meta |-> Undefined, stack |-> "ok"]

\* What a failing expression throws
TypeError ==
  [message |-> <<"Cannot read property '1' of null">>, name |-> "TypeError",
   statusCode |-> JUndef, status |-> JUndef, code |-> JUndef, type |-> Undefined,
   errors |-> <<>>, meta |-> Undefined, stack |-> "ok"]

EmptyQuery ==
  [skip |-> JUndef, offset |-> JUndef, limit |-> JUndef, count |-> JUndef,
   page |-> JUndef, sort |-> JUndef, order |-> JUndef, fields |-> JUndef]

\* What is recorded of one pass of a request through the chain of one layer
FreshPass(l) ==
  [layer |-> l, order |-> <<>>, forwarded |-> 0, success |-> 0, error |-> 0,
   final |-> 0, action |-> 0, errIn |-> NoErr, verrsIn |-> <<>>,
   envOut |-> [kind |-> "unset"], errorOut |-> [kind |-> "unset"], threw |-> FALSE,
   envAtFinal |-> "none"]

IdleReq ==
  [st |-> "idle", method |-> "GET", methodIn |-> "GET", path |-> "/a", accept |-> Undefined,
   query |-> EmptyQuery, body |-> {}, params |-> {}, vresult |-> <<>>, verrs |-> <<>>,
   sanitized |-> FALSE, layer |-> 0, pc |-> 0, busy |-> FALSE, err |-> NoErr,
   statusCode |-> JNum(200), data |-> Undefined, paging |-> Undefined,
   envelope |-> [kind |-> "unset"], headersSent |-> FALSE, writes |-> 0,
   written |-> <<>>, finals |-> <<>>, observed |-> [seen |-> FALSE], passes |-> <<>>,
   acceptIn |-> Undefined, bodyIn |-> {}]

\* A route layer matches on the method (router.all matches any) and on the path,
\* which Express compares without regard to case; the path '*' matches any
matches(layer, q) ==
  /\ layer.method = "all" \/ layer.method = toLowerCase(q.method)
  /\ layer.path = "*" \/ layer.path = toLowerCase(q.path)

\* A handler of four arguments runs only with an error, the others only without
handles(stage, e) ==
  IF stage.fn = "errorResponse" THEN e # NoErr ELSE e = NoErr

\* The first stage at or after position p of layer l that takes the request;
\* the router enters no route while an error is pending
RECURSIVE dispatch(_, _, _, _)
dispatch(q, l, p, e) ==
  IF l > Len(stack)
  THEN [q EXCEPT !.st = "done", !.layer = l, !.pc = 0, !.err = e]
  ELSE IF ~matches(stack[l], q) \/ (l # q.layer /\ e # NoErr)
  THEN dispatch(q, l + 1, 1, e)
  ELSE IF p > Len(stack[l].chain)
  THEN dispatch(q, l + 1, 1, e)
  ELSE IF handles(stack[l].chain[p], e)
  THEN [q EXCEPT !.layer = l, !.pc = p, !.err = e,
                 !.passes = IF l # q.layer THEN Append(@, FreshPass(l)) ELSE @]
  ELSE dispatch(q, l, p + 1, e)

\* next(e) called by the stage the request is at
next(q, e) ==
  LET n == Len(q.passes)
      q1 == [q EXCEPT !.busy = FALSE,
                      !.passes[n].forwarded = IF e # NoErr THEN @ + 1 ELSE @,
                      !.passes[n].order[Len(q.passes[n].order)].done = TRUE]
  IN dispatch(q1, q.layer, q.pc + 1, e)

cur(q) == stack[q.layer].chain[q.pc]

\* The stage the request is at starts to run
started(q) ==
  [q EXCEPT !.passes[Len(q.passes)].order =
              Append(@, [pos |-> q.pc, group |-> cur(q).group, fn |-> cur(q).fn,
                         done |-> FALSE])]

\* Every stage but the application's calls next before it returns, so a request
\* goes from one wait to the next without another request's callback in between
quiet(r) == \A o \in DOMAIN req \ {r} : ~(req[o].st = "run" /\ ~req[o].busy)

at(r) == req[r].st = "run" /\ ~req[r].busy

\* ------------------------------------------------------------ the stages
UserGroups == {"pre", "middleware", "before", "after"}

\* A request arrives and the router hands it to the first matching layer
receive(r, Inputs) ==
  /\ calls > 0
  /\ req[r].st # "run" /\ quiet(r)
  /\ \E i \in Inputs :
       req' = [req EXCEPT ![r] =
                 dispatch([IdleReq EXCEPT !.st = "run", !.method = i.method,
                             !.methodIn = i.method,
                             !.path = i.path, !.accept = i.accept,
                             !.acceptIn = i.accept, !.query = i.query,
                             !.body = i.body, !.bodyIn = i.body,
                             !.vresult = i.vresult], 1, 1, NoErr)]
  /\ UNCHANGED <<controllers, routes, stack, calls, ctl>>

\* this._begin of lib/controller.js, bound to the controller
beginStage(r) ==
  /\ at(r) /\ cur(req[r]).group = "_begin"
  /\ LET q == req[r]
         c == stack[q.layer].ctrl
     IN /\ ctl' = [ctl EXCEPT ![c] =
                     IF cur(q).fn = "parseFields" THEN thisParseFields(@, q.query)
                     ELSE thisParseSkipLimitSortOrder(@, q.query)]
        /\ req' = [req EXCEPT ![r] = next(started(q), NoErr)]
  /\ UNCHANGED <<controllers, routes, stack, calls>>

\* Controller and route middleware supplied by the application
userStart(r) ==
  /\ at(r) /\ cur(req[r]).group \in UserGroups
  /\ req' = [req EXCEPT ![r] = [started(@) EXCEPT !.busy = TRUE]]
  /\ UNCHANGED <<controllers, routes, stack, calls, ctl>>

userNext(r, Errs) ==
  /\ req[r].st = "run" /\ req[r].busy /\ cur(req[r]).group \in UserGroups /\ quiet(r)
  /\ \E e \in {NoErr} \cup Errs : req' = [req EXCEPT ![r] = next(@, e)]
  /\ UNCHANGED <<controllers, routes, stack, calls, ctl>>

\* ---------------------------------------------------------- _buildHandler
omit(m, keys) == [k \in DOMAIN m |-> IF k \in keys THEN JUndef ELSE m[k]]
pick(m, keys) == [k \in DOMAIN m |-> IF k \in keys THEN m[k] ELSE JUndef]

\* What route.action reads of the pagination, selection and sort
observe(q, c) ==
  IF controllers[c].begin # <<>>
  THEN [seen |-> TRUE, skip |-> ctl[c].skip, limit |-> ctl[c].limit, page |-> ctl[c].page,
        sort |-> ctl[c].sort, select |-> ctl[c].select]
  ELSE LET p == parseSkipLimitSortOrder(q.query) IN
       [seen |-> TRUE, skip |-> p.skip, limit |-> p.limit, page |-> p.page,
        sort |-> p.sort, select |-> parseFields(q.query)]

\* Faulty variant: the errors read before req.check(validator) has run
validationFailsUnchecked(route, q) == route.validator /\ Len(q.verrs) > 0

\* req.check(validator); if (req.validationErrors().length) return next(...)
validationFails(route, q) == route.validator /\ Len(q.vresult) > 0

\* The function _buildHandler returns, up to the call of route.action
handlerOn(q) ==
  LET layer == stack[q.layer]
      route == controllers[layer.ctrl].routes[layer.route]
      q1 == [started(q) EXCEPT !.sanitized = route.sanitizer,
                               !.verrs = IF route.validator THEN q.vresult ELSE @]
  IN IF validationFails(route, q)
     THEN next(q1, ValidationFailed)
     ELSE LET bl == route.blacklist
              wl == route.whitelist
              q2 == IF bl # {}
                    THEN [q1 EXCEPT !.params = @ \ bl, !.query = omit(@, bl), !.body = @ \ bl]
                    ELSE q1
              q3 == IF wl # {}
                    THEN [q2 EXCEPT !.params = @ \cap wl, !.query = pick(@, wl),
                                    !.body = @ \cap wl]
                    ELSE q2
          IN [q3 EXCEPT !.busy = TRUE, !.observed = observe(q3, layer.ctrl),
                        !.passes[Len(q.passes)].action = @ + 1]

handler(r) ==
  /\ at(r) /\ cur(req[r]).fn = "handler"
  /\ req' = [req EXCEPT ![r] = handlerOn(@)]
  /\ UNCHANGED <<controllers, routes, stack, calls, ctl>>

\* route.action sets the result on res and calls next, or forwards an error
actionNext(r, Results, Errs) ==
  /\ req[r].st = "run" /\ req[r].busy /\ cur(req[r]).fn = "handler" /\ quiet(r)
  /\ \/ \E x \in Results :
          req' = [req EXCEPT ![r] =
                    next([@ EXCEPT !.statusCode = x.statusCode, !.data = x.data,
                                   !.paging = x.paging], NoErr)]
     \/ \E e \in Errs, checked \in BOOLEAN :
          req' = [req EXCEPT ![r] =
                    next([@ EXCEPT !.verrs = IF checked THEN req[r].vresult ELSE @], e)]
  /\ UNCHANGED <<controllers, routes, stack, calls, ctl>>

\* ------------------------------------------------------------ this._end
successResponseOn(q) ==
  LET q1 == started(q) IN
  next([q1 EXCEPT !.envelope = successEnvelope(q.statusCode, q.data, q.paging),
                  !.passes[Len(q.passes)].success = @ + 1], NoErr)

successResponse(r) ==
  /\ at(r) /\ cur(req[r]).fn = "successResponse"
  /\ req' = [req EXCEPT ![r] = successResponseOn(@)]
  /\ UNCHANGED <<controllers, routes, stack, calls, ctl>>

\* res.status(error.statusCode); res.envelope = envelope; next()
errorResponseOn(q) ==
  LET n == Len(q.passes)
      q1 == [started(q) EXCEPT !.passes[n].error = @ + 1, !.passes[n].errIn = q.err,
                               !.passes[n].verrsIn = q.verrs]
      revision == controllers[stack[q.layer].ctrl].revision
      envelope == errorEnvelope(revision, q.err, q.verrs)
  IN IF errorLine(q.err).threw
     THEN next([q1 EXCEPT !.passes[n].threw = TRUE], TypeError)
     ELSE next([q1 EXCEPT !.statusCode = envelope.meta.statusCode, !.envelope = envelope,
                          !.passes[n].envOut = envelope,
                          !.passes[n].errorOut = classified(revision, q.err, q.verrs)],
               NoErr)

errorResponse(r) ==
  /\ at(r) /\ cur(req[r]).fn = "errorResponse"
  /\ req' = [req EXCEPT ![r] = errorResponseOn(@)]
  /\ UNCHANGED <<controllers, routes, stack, calls, ctl>>

\* Faulty variant: finalResponse without the test of res.headersSent
finalResponseUnguarded(q) ==
  LET n == Len(q.passes)
      q1 == [started(q) EXCEPT !.passes[n].final = @ + 1,
                               !.passes[n].envAtFinal = q.envelope.kind]
      accept == acceptOverride(q.path, q.accept)
      repr == accepts(accept)
      w == formatWrite(repr, q.statusCode, q.envelope, q.data)
  IN next([q1 EXCEPT !.accept = accept, !.statusCode = w.status,
                     !.written = Append(@, w), !.writes = @ + 1, !.headersSent = TRUE,
                     !.finals = Append(@, [sent |-> q.headersSent, repr |-> repr,
                                           wrote |-> 1])], NoErr)

\* if (res.headersSent) { next(); return; } ... res.format({...}); next()
finalResponseOn(q) ==
  LET n == Len(q.passes)
      q1 == [started(q) EXCEPT !.passes[n].final = @ + 1,
                               !.passes[n].envAtFinal = q.envelope.kind] IN
  IF q.headersSent
  THEN next([q1 EXCEPT !.finals = Append(@, [sent |-> TRUE, repr |-> "none", wrote |-> 0])],
            NoErr)
  ELSE LET accept == acceptOverride(q.path, q.accept)
           repr == accepts(accept)
           w == formatWrite(repr, q.statusCode, q.envelope, q.data)
       IN next([q1 EXCEPT !.accept = accept, !.statusCode = w.status,
                          !.written = Append(@, w), !.writes = @ + 1,
                          !.headersSent = TRUE,
                          !.finals = Append(@, [sent |-> FALSE, repr |-> repr, wrote |-> 1])],
               NoErr)

finalResponse(r) ==
  /\ at(r) /\ cur(req[r]).fn = "finalResponse"
  /\ req' = [req EXCEPT ![r] = finalResponseOn(@)]
  /\ UNCHANGED <<controllers, routes, stack, calls, ctl>>

\* The response is sent by someone else (a timeout) while the request waits for
\* the application's middleware or action
timeout(r) ==
  /\ req[r].st = "run" /\ req[r].busy /\ quiet(r) /\ ~req[r].headersSent
  /\ req' = [req EXCEPT ![r].headersSent = TRUE, ![r].writes = @ + 1]
  /\ UNCHANGED <<controllers, routes, stack, calls, ctl>>

\* ------------------------------------------- the end stage of lib/controller.js
\* The compiled class keeps the status on res.code and stores the envelope back
\* on res.data; here statusCode stands for res.code, data for what the action
\* set on res.data, and envelope for res.data after the stage

\* var code = 200; if (_.isNumber(res.code)) { code = res.code; }
codeOf(code) == IF code.t = "number" THEN code ELSE JNum(200)

\* successResponse: if (res.code !== 204) { res.data = envelope; }
successDataOfLib(code, data, paging) ==
  IF codeOf(code) # JNum(204)
  THEN [kind |-> "success",
        meta |-> [code |-> codeOf(code), paging |-> paging],
        data |-> IF data # Undefined THEN data ELSE "null"]
  ELSE IF data # Undefined THEN [kind |-> "raw", of |-> data] ELSE [kind |-> "undefined"]

successResponseOfLibOn(q) ==
  LET q1 == started(q) IN
  next([q1 EXCEPT !.statusCode = codeOf(q.statusCode),
                  !.envelope = successDataOfLib(q.statusCode, q.data, q.paging),
                  !.passes[Len(q.passes)].success = @ + 1], NoErr)

successResponseOfLib(r) ==
  /\ at(r) /\ cur(req[r]).fn = "successResponse"
  /\ req' = [req EXCEPT ![r] = successResponseOfLibOn(@)]
  /\ UNCHANGED <<controllers, routes, stack, calls, ctl>>

\* res.format without a matching key and without default: Express forwards this
NotAcceptable ==
  [message |-> <<"Not Acceptable">>, name |-> "Error", statusCode |-> JNum(406),
   status |-> JNum(406), code |-> JUndef, type |-> Undefined, errors |-> <<>>,
   meta |-> Undefined, stack |-> "ok"]

\* res.format({ json, xml }): the callbacks of lib/controller.js
formatWriteOfLib(repr, code, data) ==
  CASE repr = "json" -> [status |-> code, body |-> data, type |-> "application/json"]
    [] OTHER -> [status |-> JNum(500), body |-> [kind |-> "none"], type |-> "application/xml"]

\* finalResponse(req, res): it takes no next and ends the chain
finalResponseOfLibOn(q) ==
  LET n == Len(q.passes)
      q1 == [started(q) EXCEPT !.passes[n].final = @ + 1,
                               !.passes[n].envAtFinal = q.envelope.kind]
      accept == acceptOverride(q.path, q.accept)
      repr == accepts(accept)
  IN IF q.headersSent
     THEN [q1 EXCEPT !.st = "done",
                     !.finals = Append(@, [sent |-> TRUE, repr |-> "none", wrote |-> 0])]
     ELSE IF repr \in {"json", "xml"}
     THEN LET w == formatWriteOfLib(repr, q.statusCode, q.envelope) IN
          [q1 EXCEPT !.st = "done", !.accept = accept, !.statusCode = w.status,
                     !.written = Append(@, w), !.writes = @ + 1, !.headersSent = TRUE,
                     !.finals = Append(@, [sent |-> FALSE, repr |-> repr, wrote |-> 1])]
     ELSE [q1 EXCEPT !.st = "done", !.accept = accept, !.err = NotAcceptable,
                     !.finals = Append(@, [sent |-> FALSE, repr |-> "none", wrote |-> 0])]

finalResponseOfLib(r) ==
  /\ at(r) /\ cur(req[r]).fn = "finalResponse"
  /\ req' = [req EXCEPT ![r] = finalResponseOfLibOn(@)]
  /\ UNCHANGED <<controllers, routes, stack, calls, ctl>>

\* ============================================================ inputs
MaxConc == 2

\* Controller-scoped and route-scoped middleware of the application
pre1 == [group |-> "pre", fn |-> "pre1"]
before1 == [group |-> "before", fn |-> "before1"]
after1 == [group |-> "after", fn |-> "after1"]
mw1 == [group |-> "middleware", fn |-> "mw1"]

\* lib/controller.js: this._begin = [this.parseFields, this.parseSkipLimitSortOrder]
beginStageOfLib ==
  << [group |-> "_begin", fn |-> "parseFields"],
     [group |-> "_begin", fn |-> "parseSkipLimitSortOrder"] >>

\* A controller of the application with one middleware in each controller stage
AppController(rs, begin) ==
  [Controller(rs) EXCEPT !.pre = <<pre1>>, !.before = <<before1>>, !.after = <<after1>>,
                         !.begin = begin]

ControllerMenu ==
  { \* a validated route with route middleware, and a filtered route
    << AppController(
         << [Route("GET", "/a") EXCEPT !.middleware = <<mw1>>, !.validator = TRUE,
                                       !.sanitizer = TRUE],
            [Route("post", "/a") EXCEPT !.blacklist = {"secret"},
                                        !.whitelist = {"name", "secret"}] >>, <<>>) >>,
    \* two layers that match the same request
    << Controller(<< Route("ALL", "/a") >>), Controller(<< Route(Undefined, "/a") >>) >>,
    \* the controller of lib/, which parses in its begin stage
    << AppController(<< [Route("get", "/a") EXCEPT !.middleware = <<mw1>>] >>,
                     beginStageOfLib) >> }

Plain(message, statusCode) ==
  [message |-> message, name |-> "Error", statusCode |-> statusCode, status |-> JUndef,
   code |-> JUndef, type |-> Undefined, errors |-> <<>>, meta |-> Undefined,
   stack |-> "ok"]

v1 == [param |-> "email", msg |-> "required"]
v2 == [param |-> "age", msg |-> "not a number"]

Q1 == [EmptyQuery EXCEPT !.skip = JStr(<<"1", "0">>), !.sort = JStr(<<"name">>),
                         !.fields = JStr(<<"a", ",", " ", "b">>)]
Q2 == [EmptyQuery EXCEPT !.page = JStr(<<"2">>), !.limit = JStr(<<"5">>),
                         !.sort = JStr(<<"age">>), !.order = JStr(<<"d", "e", "s", "c">>)]

Accepts == {"application/json", "application/xml", "text/plain", "image/png"}

Input(method, path, accept, query, body, vresult) ==
  [method |-> method, path |-> path, accept |-> accept, query |-> query, body |-> body,
   vresult |-> vresult]

Inputs ==
  {Input("GET", "/a", a, Q1, {"name", "secret", "other"}, <<>>) : a \in Accepts}
  \cup {Input(m, "/a", "application/json", Q1, {"name", "secret", "other"}, v) :
          m \in {"GET", "POST"}, v \in {<<>>, <<v1>>}}
  \cup {Input("GET", "/b", "application/json", Q1, {}, <<>>)}

Errs == {Plain(<<"boom">>, JUndef), Plain(<<>>, JNum(404))}

Result(statusCode, data) == [statusCode |-> JNum(statusCode), data |-> data, paging |-> Undefined]

Results == {Result(200, "rows"), Result(204, "rows"), Result(200, Undefined)}

\* ============================================================== Spec
\* One request at a time, through controllers of every shape
InitRouter ==
  /\ routes = <<>>
  /\ stack = <<>>
  /\ calls = 0
  /\ ctl = [c \in 1..Len(controllers) |-> newController]

Init ==
  /\ controllers \in ControllerMenu
  /\ InitRouter
  /\ req = [r \in 1..1 |-> IdleReq]

Receive == \E r \in DOMAIN req : receive(r, Inputs)
BeginStage == \E r \in DOMAIN req : beginStage(r)
UserStart == \E r \in DOMAIN req : userStart(r)
UserNext == \E r \in DOMAIN req : userNext(r, Errs)
Handler == \E r \in DOMAIN req : handler(r)
ActionNext == \E r \in DOMAIN req : actionNext(r, Results, Errs)
SuccessResponse == \E r \in DOMAIN req : successResponse(r)
ErrorResponse == \E r \in DOMAIN req : errorResponse(r)
FinalResponse == \E r \in DOMAIN req : finalResponse(r)
Timeout == \E r \in DOMAIN req : timeout(r)

Next ==
  \/ addControllerRoutes
  \/ Receive
  \/ BeginStage
  \/ UserStart
  \/ UserNext
  \/ Handler
  \/ ActionNext
  \/ SuccessResponse
  \/ ErrorResponse
  \/ FinalResponse
  \/ Timeout

Spec == Init /\ [][Next]_vars

\* =========================================================== SpecErr
\* Controllers of both revisions, connected; the errors their middleware and
\* their actions forward are drawn from every shape errorResponse tells apart
ErrControllers ==
  << [Controller(<< [Route("GET", "/a") EXCEPT !.validator = TRUE], Route("post", "/a") >>)
        EXCEPT !.pre = <<pre1>>],
     [Controller(<< Route("PUT", "/a") >>) EXCEPT !.revision = "revised"] >>

StatusCodes ==
  {JUndef, JNum(0), JNum(400), JNum(404), JNum(409), JNum(418), JNum(500), JNum(503),
   JStr(<<"4", "0", "4">>), JStr(<<"a", "b", "c">>)}

BaseErrs ==
  {[Plain(m, sc) EXCEPT !.name = n,
                        !.errors = IF n = "ValidationError"
                                   THEN << <<"name is required">>, <<"age is too low">> >>
                                   ELSE <<>>] :
     m \in {<<>>, <<"boom">>, <<"E11000 duplicate key error">>},
     n \in {"Error", "ValidationError"},
     sc \in StatusCodes}

\* throwError(message, status): err.status = status
thrownError(message, status) == [Plain(message, JUndef) EXCEPT !.status = JNum(status)]

RichErrs ==
  BaseErrs
    \cup {[e EXCEPT !.type = "CUSTOM"] : e \in BaseErrs}
    \cup {[e EXCEPT !.meta = "m"] : e \in BaseErrs}
    \cup {[e EXCEPT !.stack = k] : e \in BaseErrs, k \in {Undefined, "bad"}}
    \cup {[e EXCEPT !.code = JNum(403)] : e \in BaseErrs}
    \cup {thrownError(<<"not found">>, 404), thrownError(<<"boom">>, 500)}

ErrInputs ==
  {Input(m, "/a", "application/json", EmptyQuery, {}, v) :
     m \in {"GET", "POST", "PUT"}, v \in {<<>>, <<v1>>, <<v1, v2>>}}

\* The router after one call of addControllerRoutes
InitConnected ==
  /\ calls = 1
  /\ ctl = [c \in 1..Len(controllers) |-> newController]
  /\ LET acc == forEachRoute([paths |-> [p \in LowerPaths |-> Undefined],
                              routes |-> <<>>, stack |-> <<>>], 1, 1)
     IN routes = acc.routes /\ stack = acc.stack

InitErr ==
  /\ controllers = ErrControllers
  /\ InitConnected
  /\ req = [r \in 1..1 |-> IdleReq]

ReceiveErr == \E r \in DOMAIN req : receive(r, ErrInputs)
UserNextErr == \E r \in DOMAIN req : userNext(r, RichErrs)
ActionNextErr == \E r \in DOMAIN req : actionNext(r, {Result(200, "rows")}, RichErrs)

NextErr ==
  \/ ReceiveErr
  \/ UserStart
  \/ UserNextErr
  \/ Handler
  \/ ActionNextErr
  \/ SuccessResponse
  \/ ErrorResponse
  \/ FinalResponse

SpecErr == InitErr /\ [][NextErr]_vars

\* ========================================================== SpecConc
\* Requests in flight together on the controller of lib/
ConcControllers ==
  << [Controller(<< Route("GET", "/a") >>) EXCEPT !.begin = beginStageOfLib] >>

ConcInputs ==
  {Input("GET", "/a", "application/json", q, {}, <<>>) : q \in {EmptyQuery, Q1, Q2}}

InitConc ==
  /\ controllers = ConcControllers
  /\ InitConnected
  /\ req = [r \in 1..MaxConc |-> IdleReq]

ReceiveConc == \E r \in DOMAIN req : receive(r, ConcInputs)
ActionNextConc ==
  \E r \in DOMAIN req : actionNext(r, {Result(200, "rows")}, {Plain(<<"boom">>, JUndef)})

NextConc ==
  \/ ReceiveConc
  \/ BeginStage
  \/ Handler
  \/ ActionNextConc
  \/ SuccessResponse
  \/ ErrorResponse
  \/ FinalResponse

SpecConc == InitConc /\ [][NextConc]_vars

\* =========================================================== SpecLib
\* The controller of lib/ with its own end stage; the action sets a result
LibControllers ==
  << [Controller(<< Route("GET", "/a") >>) EXCEPT !.begin = beginStageOfLib,
                                                  !.revision = "lib"] >>

LibInputs ==
  {Input("GET", "/a", a, q, {}, <<>>) :
     a \in {"application/json", "application/xml", "text/plain"}, q \in {EmptyQuery, Q1}}

\* res.code and res.data as the action leaves them
LibResults ==
  {[statusCode |-> c, data |-> d, paging |-> Undefined] :
     c \in {JUndef, JNum(200), JNum(201), JNum(204)}, d \in {Undefined, "rows"}}

InitLib ==
  /\ controllers = LibControllers
  /\ InitConnected
  /\ req = [r \in 1..1 |-> IdleReq]

ReceiveLib == \E r \in DOMAIN req : receive(r, LibInputs)
ActionNextLib == \E r \in DOMAIN req : actionNext(r, LibResults, {})
SuccessResponseOfLib == \E r \in DOMAIN req : successResponseOfLib(r)
FinalResponseOfLib == \E r \in DOMAIN req : finalResponseOfLib(r)

NextLib ==
  \/ ReceiveLib
  \/ BeginStage
  \/ Handler
  \/ ActionNextLib
  \/ SuccessResponseOfLib
  \/ FinalResponseOfLib

SpecLib == InitLib /\ [][NextLib]_vars

\* ========================================================= SpecSuffix
\* Routes whose paths end in, or merely resemble, the two extensions
SuffixPaths == {"/a", "/a.json", "/ajson", "/a.xml", "/axml", "/xml"}

SuffixControllers ==
  << Controller(<< Route("GET", "/a"), Route("GET", "/a.json"), Route("GET", "/ajson") >>),
     Controller(<< Route("GET", "/a.xml"), Route("GET", "/axml"), Route("GET", "/xml") >>) >>

SuffixInputs ==
  {Input("GET", p, a, EmptyQuery, {}, <<>>) : p \in SuffixPaths, a \in Accepts}

InitSuffix ==
  /\ controllers = SuffixControllers
  /\ InitConnected
  /\ req = [r \in 1..1 |-> IdleReq]

ReceiveSuffix == \E r \in DOMAIN req : receive(r, SuffixInputs)
ActionNextSuffix ==
  \E r \in DOMAIN req : actionNext(r, {Result(200, "rows")}, {Plain(<<"boom">>, JUndef)})

NextSuffix ==
  \/ ReceiveSuffix
  \/ Handler
  \/ ActionNextSuffix
  \/ SuccessResponse
  \/ ErrorResponse
  \/ FinalResponse

SpecSuffix == InitSuffix /\ [][NextSuffix]_vars

\* Registration on its own, over every list of routes within the bounds
RouteInputs ==
  {Route(m, p) : m \in {Undefined, "GET", "post"}, p \in {"/a", "/A"}}
    \cup {[Route("get", Undefined) EXCEPT !.action = FALSE]}

InitRoutes ==
  /\ controllers \in SeqsUpTo({Controller(rs) : rs \in SeqsUpTo(RouteInputs, MaxRoutes)},
                              MaxControllers)
  /\ InitRouter
  /\ req = [r \in 1..1 |-> IdleReq]

NextRoutes == addControllerRoutes

SpecRoutes == InitRoutes /\ [][NextRoutes]_vars

\* ------------------------------------------------------------------ C1
\* The (method, path) pairs of the routes of all controllers, lowercased, in
\* controller-registration order
RECURSIVE declared(_, _)
declared(ci, ri) ==
  IF ci > Len(controllers) THEN <<>>
  ELSE IF ri > Len(controllers[ci].routes) THEN declared(ci + 1, 1)
  ELSE LET route == controllers[ci].routes[ri] IN
       (IF route.path = Undefined \/ ~route.action THEN <<>>
        ELSE << [method |-> IF route.method = Undefined THEN "get"
                            ELSE toLowerCase(route.method),
                 path |-> toLowerCase(route.path), ctrl |-> ci, route |-> ri] >>)
       \o declared(ci, ri + 1)

\* C1: after one call of addControllerRoutes every (method, path) pair is
\* connected at most once, appears at most once in router.routes, and the
\* layer connected for it is the first route with that pair in
\* controller-registration order
C1_UniquePairs ==
  calls = 1 =>
    /\ \A i, j \in 1..Len(routes) :
         (routes[i].method = routes[j].method /\ routes[i].path = routes[j].path) => i = j
    /\ \A i, j \in 1..Len(stack) :
         (stack[i].method = stack[j].method /\ stack[i].path = stack[j].path) => i = j
    /\ LET d == declared(1, 1) IN
       \A i \in 1..Len(stack) : \A k \in 1..Len(d) :
         (d[k].method = stack[i].method /\ d[k].path = stack[i].path)
           => \/ d[k].ctrl > stack[i].ctrl
              \/ (d[k].ctrl = stack[i].ctrl /\ d[k].route >= stack[i].route)

\* ------------------------------------------------------- requests and passes
\* Every pass of every request through the chain of a layer
PassIds == {x \in (DOMAIN req) \X (1..Len(stack)) : x[2] <= Len(req[x[1]].passes)}

passOf(x) == req[x[1]].passes[x[2]]

\* The pass is over: a later pass has begun or the request has left the router
finished(x) == x[2] < Len(req[x[1]].passes) \/ req[x[1]].st = "done"

routeOf(x) ==
  LET layer == stack[passOf(x).layer] IN controllers[layer.ctrl].routes[layer.route]

ran(x, fn) == \E i \in 1..Len(passOf(x).order) : passOf(x).order[i].fn = fn

\* ------------------------------------------------------------------ C2
\* The order of the stage groups as the claim gives it
groupRank(g) ==
  CASE g = "_begin" -> 1 [] g = "pre" -> 2 [] g = "middleware" -> 3 [] g = "before" -> 4
    [] g = "handler" -> 5 [] g = "after" -> 6 [] g = "routeAfter" -> 7 [] g = "_end" -> 8

C4_ValidationStopsAction ==
  \A x \in PassIds :
    LET p == passOf(x)
        invalid == routeOf(x).validator /\ Len(req[x[1]].vresult) > 0
    IN /\ (ran(x, "handler") /\ invalid) =>
            /\ p.action = 0
            /\ p.forwarded = 1
            /\ p.error = 1 => p.errIn = ValidationFailed
       /\ p.action >= 1 => ~invalid

\* A validated route, a request with validation errors, and the error classified
C4_Witness ==
  \E x \in PassIds :
    /\ ran(x, "handler") /\ routeOf(x).validator /\ Len(req[x[1]].vresult) > 0
    /\ passOf(x).error = 1 /\ passOf(x).action = 0

\* ------------------------------------------------------------------ C5
\* What the parsing of the request's own query yields on a new controller
ownObservation(c, query) ==
  IF controllers[c].begin # <<>>
  THEN LET this == thisParseSkipLimitSortOrder(thisParseFields(newController, query), query)
       IN [seen |-> TRUE, skip |-> this.skip, limit |-> this.limit, page |-> this.page,
           sort |-> this.sort, select |-> this.select]
  ELSE LET p == parseSkipLimitSortOrder(query) IN
       [seen |-> TRUE, skip |-> p.skip, limit |-> p.limit, page |-> p.page,
        sort |-> p.sort, select |-> parseFields(query)]

\* C5: the pagination, selection and sort the action of a request observes are
\* those of the request's own query string, whatever other requests the
\* controller handles before or meanwhile
C5_OwnQuery ==
  \A r \in DOMAIN req :
    (req[r].st # "idle" /\ req[r].observed.seen) =>
      req[r].observed = ownObservation(stack[req[r].passes[1].layer].ctrl, req[r].query)

\* ------------------------------------------------------------------ C6
\* C6: the response of a request is written at most once; finalResponse picks
\* one representation and writes once when the headers were not sent, and
\* writes nothing when they were
C6_OneWrite ==
  \A r \in DOMAIN req :
    /\ req[r].writes <= 1
    /\ Len(req[r].written) <= 1
    /\ \A i \in 1..Len(req[r].finals) :
         LET f == req[r].finals[i] IN
         IF f.sent THEN f.wrote = 0 /\ f.repr = "none"
         ELSE f.wrote = 1 /\ f.repr \in {"json", "xml", "text", "default"}
    /\ (req[r].finals # <<>>) => (req[r].headersSent /\ req[r].writes = 1)

\* finalResponse ran twice for one request: it wrote the first time and
\* found the headers sent the second time
C6_Witness ==
  \E r \in DOMAIN req :
    /\ Len(req[r].finals) = 2
    /\ ~req[r].finals[1].sent /\ req[r].finals[2].sent
    /\ req[r].writes = 1

\* ------------------------------------------------------------------ C7
wellFormed(envelope) ==
  /\ envelope.kind = "error"
  /\ envelope.meta.statusCode.t = "number"
  /\ envelope.meta.errorType \notin {Undefined, ""}
  /\ DOMAIN envelope.meta.errorMessage = 1..Len(envelope.meta.errorMessage)
  /\ envelope.data = "{}"

\* The error declares no status and falls in no branch of the classification
unclassified(err, verrs) ==
  /\ ~testE11000(err.message)
  /\ err.name # "ValidationError"
  /\ verrs = <<>>
  /\ parseInt(err.statusCode) = JNaN /\ err.status = JUndef /\ err.code = JUndef

\* C7: every error a stage forwards is classified by errorResponse exactly
\* once; errorResponse does not throw, sets a well-formed error envelope and
\* calls next without an error; an error of no classification yields 500 and
\* INTERNAL_SERVER_ERROR
C7_ErrorOnce ==
  \A x \in PassIds :
    LET p == passOf(x) IN
    /\ p.error <= 1
    /\ p.forwarded <= 1
    /\ (p.final >= 1 \/ finished(x)) => p.error = p.forwarded
    /\ p.error = 1 =>
         /\ ~p.threw
         /\ wellFormed(p.envOut)
         /\ (x[2] = Len(req[x[1]].passes) /\ p.final = 0 /\ req[x[1]].st = "run") =>
              (req[x[1]].err = NoErr /\ cur(req[x[1]]).fn = "finalResponse")
         /\ unclassified(p.errIn, p.verrsIn) =>
              /\ p.envOut.meta.statusCode = JNum(500)
              /\ p.envOut.meta.errorType = "INTERNAL_SERVER_ERROR"

\* An error of no classification, with a stack that has no call-site line,
\* went through errorResponse and finalResponse
C7_Witness ==
  \E x \in PassIds :
    /\ passOf(x).error = 1 /\ passOf(x).final = 1
    /\ unclassified(passOf(x).errIn, passOf(x).verrsIn)
    /\ passOf(x).errIn.stack = "bad"

\* ------------------------------------------------------------------ C8
\* C8: an error whose message carries E11000 yields statusCode 409, whatever
\* status it declares, whatever its name and whatever validation errors the
\* request has
C8_DuplicateKey ==
  \A x \in PassIds :
    (passOf(x).error = 1 /\ testE11000(passOf(x).errIn.message)) =>
      passOf(x).envOut.meta.statusCode = JNum(409)

\* ------------------------------------------------------------------ C9
\* The fallback case of the classification
fallbackCase(err, verrs) ==
  ~testE11000(err.message) /\ err.name # "ValidationError" /\ verrs = <<>>

\* The numeric statuses the error declares as status, code or statusCode
declaredStatuses(err) ==
  {parseInt(d) : d \in {err.status, err.code, err.statusCode}} \ {JNaN, JNum(0)}

\* C9: in the fallback case statusCode is the status the error declares (its
\* status, code or statusCode) when there is a numeric one, and 500 otherwise;
\* errorMessage is the error's message, or "Internal Server Error"
C9_DeclaredStatus ==
  \A x \in PassIds :
    LET p == passOf(x) IN
    (p.error = 1 /\ fallbackCase(p.errIn, p.verrsIn)) =>
      /\ IF declaredStatuses(p.errIn) # {}
         THEN p.envOut.meta.statusCode \in declaredStatuses(p.errIn)
         ELSE p.envOut.meta.statusCode = JNum(500)
      /\ p.envOut.meta.errorMessage =
           IF p.errIn.message # <<>> THEN p.errIn.message ELSE <<"Internal Server Error">>

\* ------------------------------------------------------------------ C10
\* The status codes that have an entry of their own in the switch
TableCodes == {JNum(c) : c \in {400, 401, 402, 403, 404, 405, 406, 409, 410, 500, 501}}

namedEntries(statusCode, errorType) ==
  /\ statusCode = JNum(400) => errorType = "BAD_REQUEST"
  /\ statusCode = JNum(404) => errorType = "NOT_FOUND"
  /\ statusCode = JNum(409) => errorType = "CONFLICT"
  /\ statusCode = JNum(500) => errorType = "INTERNAL_SERVER_ERROR"

\* C10 as stated: without a type of its own the error gets the table entry of
\* its statusCode, and a status without entry gets UNKNOWN_CLIENT_ERROR in
\* 400..499 and UNKNOWN_SERVER_ERROR in 500..599
C10_Bucketed ==
  \A x \in PassIds :
    LET p == passOf(x)
        sc == p.envOut.meta.statusCode
    IN (p.error = 1 /\ fallbackCase(p.errIn, p.verrsIn)) =>
         /\ namedEntries(sc, p.envOut.meta.errorType)
         /\ (sc \notin TableCodes /\ sc.v \in 400..499) =>
              p.envOut.meta.errorType = "UNKNOWN_CLIENT_ERROR"
         /\ (sc \notin TableCodes /\ sc.v \in 500..599) =>
              p.envOut.meta.errorType = "UNKNOWN_SERVER_ERROR"

\* C10 as amended: without a type of its own the error gets the table entry
\* of its statusCode, and a status without entry gets INTERNAL_SERVER_ERROR
C10_TableOrInternal ==
  \A x \in PassIds :
    LET p == passOf(x)
        sc == p.envOut.meta.statusCode
    IN (p.error = 1 /\ fallbackCase(p.errIn, p.verrsIn)) =>
         /\ namedEntries(sc, p.envOut.meta.errorType)
         /\ sc \notin TableCodes => p.envOut.meta.errorType = "INTERNAL_SERVER_ERROR"

\* Errors declaring 418 and 503, which have no entry, and 404, which has one
C10_Witness ==
  \E x \in PassIds :
    /\ passOf(x).error = 1 /\ fallbackCase(passOf(x).errIn, passOf(x).verrsIn)
    /\ passOf(x).envOut.meta.statusCode = JNum(418)
    /\ passOf(x).envOut.meta.errorType = "INTERNAL_SERVER_ERROR"

\* ------------------------------------------------------------------ C11
\* C11: when the error handed to errorResponse declares a type of its own, the
\* errorType of the envelope is that type; the table is used only for errors
\* that declare none
C11_DeclaredType ==
  \A x \in PassIds :
    (passOf(x).error = 1 /\ passOf(x).errIn.type # Undefined) =>
      passOf(x).envOut.meta.errorType = passOf(x).errIn.type

\* ------------------------------------------------------------------ C12
\* The passes through controllers of the class of src/controller.js in which
\* errorResponse ran
ClassifiedPasses ==
  {x \in PassIds : passOf(x).error = 1
                   /\ controllers[stack[passOf(x).layer].ctrl].revision = "src"}

\* The "[param -> msg]" tokens of the request's validation errors, in order
RECURSIVE tokensOf(_)
tokensOf(verrs) ==
  IF verrs = <<>> THEN <<>>
  ELSE <<"[", Head(verrs).param, " -> ", Head(verrs).msg, "]">>
         \o (IF Len(verrs) > 1 THEN <<", ">> ELSE <<>>) \o tokensOf(Tail(verrs))

\* The per-field messages of a ValidationError, joined
RECURSIVE messagesOf(_)
messagesOf(errors) ==
  IF errors = <<>> THEN <<>>
  ELSE Head(errors) \o (IF Len(errors) > 1 THEN <<", ">> ELSE <<>>) \o messagesOf(Tail(errors))

\* Status and message of the first matching case, in the claim's order
firstMatch(x) ==
  LET p == passOf(x)
      e == p.errIn
      out == p.envOut.meta
  IN /\ testE11000(e.message) => out.statusCode = JNum(409)
     /\ (~testE11000(e.message) /\ e.name = "ValidationError") =>
          /\ out.statusCode = JNum(400)
          /\ out.errorMessage = messagesOf(e.errors)
     /\ (~testE11000(e.message) /\ e.name # "ValidationError" /\ p.verrsIn # <<>>) =>
          /\ out.statusCode = JNum(400)
          /\ out.errorMessage = tokensOf(p.verrsIn)
     /\ (~testE11000(e.message) /\ e.name # "ValidationError" /\ p.verrsIn = <<>>) =>
          out.statusCode = or(parseInt(e.statusCode), JNum(500))

\* C12 as stated: the classification is first-match-wins in the order
\* duplicate key, ValidationError, request validation errors, fallback, and the
\* meta of a ValidationError always carries the raw field errors
C12_MetaAlwaysFieldErrors ==
  \A x \in ClassifiedPasses :
    /\ firstMatch(x)
    /\ (~testE11000(passOf(x).errIn.message) /\ passOf(x).errIn.name = "ValidationError") =>
         passOf(x).errorOut.meta = [k |-> "errors", v |-> passOf(x).errIn.errors]

\* C12 as amended: the same order, statuses and messages; the meta of a
\* ValidationError carries the raw field errors when the error has no meta of
\* its own, and the error's own meta otherwise
C12_FirstMatch ==
  \A x \in ClassifiedPasses :
    /\ firstMatch(x)
    /\ (~testE11000(passOf(x).errIn.message) /\ passOf(x).errIn.name = "ValidationError") =>
         passOf(x).errorOut.meta =
           IF passOf(x).errIn.meta # Undefined
           THEN [k |-> "own", v |-> passOf(x).errIn.meta]
           ELSE [k |-> "errors", v |-> passOf(x).errIn.errors]

\* A ValidationError without E11000 classified on a request that also has two
\* validation errors of its own
C12_Witness ==
  \E x \in ClassifiedPasses :
    /\ passOf(x).errIn.name = "ValidationError" /\ ~testE11000(passOf(x).errIn.message)
    /\ Len(passOf(x).verrsIn) = 2
    /\ passOf(x).envOut.meta.errorMessage = <<"name is required", ", ", "age is too low">>

\* ------------------------------------------------------------------ C13
\* C13: when the status of the response is 204, the value that finalResponse
\* hands to the write of the response holds no data set by the action, whatever
\* res.data holds
C13_NoDataOn204 ==
  \A r \in DOMAIN req :
    \A i \in 1..Len(req[r].written) :
      req[r].written[i].status = JNum(204) =>
        req[r].written[i].body.kind \in {"undefined", "none"}

\* ------------------------------------------------------------------ C14
\* C14: when the accept header that finalResponse negotiates with names none
\* of json, xml and text, the response has status 406 and its body is the text
\* Not Acceptable: no envelope and no data
C14_NotAcceptable ==
  \A r \in DOMAIN req :
    \A i \in 1..Len(req[r].finals) :
      (~req[r].finals[i].sent /\ accepts(req[r].accept) = "default") =>
        /\ req[r].finals[i].repr = "default"
        /\ Len(req[r].written) = 1
        /\ req[r].written[1].status = JNum(406)
        /\ req[r].written[1].body = [kind |-> "text", of |-> "Not Acceptable"]

\* A request that accepts image/png only, answered after its action set data
C14_Witness ==
  \E r \in DOMAIN req :
    /\ req[r].accept = "image/png" /\ req[r].data = "rows"
    /\ req[r].envelope.kind = "success"
    /\ Len(req[r].written) = 1 /\ req[r].written[1].status = JNum(406)

\* ------------------------------------------------------------------ C15
\* C15: when the xml representation is selected and there is an envelope to
\* convert, the body written is the XML of the envelope, with content type
\* application/xml; charset=utf-8 and the status of the response; the bare 500
\* is kept for a conversion that fails
C15_XmlOfEnvelope ==
  \A r \in DOMAIN req :
    \A i \in 1..Len(req[r].finals) :
      (~req[r].finals[i].sent /\ req[r].finals[i].repr = "xml"
         /\ Len(req[r].passes) = 1 /\ req[r].envelope.kind \in {"success", "error"}) =>
        /\ req[r].written[1].body = [kind |-> "xml", of |-> req[r].envelope]
        /\ req[r].written[1].type = "application/xml; charset=utf-8"
        /\ req[r].written[1].status # JNum(500) \/ req[r].envelope.meta.statusCode = JNum(500)

\* ------------------------------------------------------------------ C16
\* The path ends with the given suffix
endsWith(path, suffix) ==
  LET cs == charsOf(path) IN
  Len(cs) >= Len(suffix) /\ SubSeq(cs, Len(cs) - Len(suffix) + 1, Len(cs)) = suffix

\* C16: finalResponse sets the accept header to application/json exactly when
\* the path ends with ".json" and to application/xml exactly when it ends with
\* ".xml"; for every other path the header stays as the request declared it,
\* and it decides the representation
C16_SuffixExact ==
  \A r \in DOMAIN req :
    (Len(req[r].finals) >= 1 /\ ~req[r].finals[1].sent) =>
      /\ req[r].accept =
           IF endsWith(req[r].path, <<".", "j", "s", "o", "n">>) THEN "application/json"
           ELSE IF endsWith(req[r].path, <<".", "x", "m", "l">>) THEN "application/xml"
           ELSE req[r].acceptIn
      /\ req[r].finals[1].repr = accepts(req[r].accept)

\* ------------------------------------------------------------------ C17
\* C17: on a route with a blacklist and a non-empty whitelist, the action finds
\* in req.body the supplied fields that the whitelist names, those that the
\* blacklist names too included; the other fields are removed
C17_WhitelistWins ==
  \A x \in PassIds :
    LET route == routeOf(x) IN
    (x[2] = 1 /\ Len(req[x[1]].passes) = 1 /\ passOf(x).action >= 1
       /\ route.blacklist # {} /\ route.whitelist # {}) =>
      req[x[1]].body = req[x[1]].bodyIn \cap route.whitelist

\* ------------------------------------------------------------------ C18
\* The stages of the pass that ran before the first stage of user code
parsedBefore(x) ==
  LET o == passOf(x).order
      user == {i \in 1..Len(o) : o[i].group \in {"pre", "middleware", "before", "handler"}}
  IN {o[i].fn : i \in {j \in 1..Len(o) : \A k \in user : j < k /\ o[j].done}}

\* C18: in every pass of a request through a registered route, the parsing of
\* fields and of pagination and ordering has run and called next before the
\* first stage of user code (controller pre, route middleware, controller
\* before, action) starts
C18_ParsedFirst ==
  \A x \in PassIds :
    (\E i \in 1..Len(passOf(x).order) :
        passOf(x).order[i].group \in {"pre", "middleware", "before", "handler"}) =>
      {"parseFields", "parseSkipLimitSortOrder"} \subseteq parsedBefore(x)

\* ------------------------------------------------------ parseQueryParams
\* JS values of a filter: booleans, arrays, fractions, the { $regex, $options } object
JBool(b) == [t |-> "boolean", v |-> b]
JArr(xs) == [t |-> "array", v |-> xs]
JFrac(neg, n, frac) == [t |-> "number", v |-> n, neg |-> neg, frac |-> frac]
JRegex(cs) == [t |-> "object", regex |-> cs, options |-> <<"i">>]

\* An object whose keys have an order: its key/type pairs in insertion order
JObj(pairs) == [t |-> "object", v |-> pairs]

\* JS objects are functions on their keys; keys are character sequences
EmptyObject == <<>>
Obj(key, val) == [k \in {key} |-> val]

\* String.prototype.split(','): tok is the token read so far
RECURSIVE split(_, _)
split(cs, tok) ==
  IF cs = <<>> THEN <<tok>>
  ELSE IF Head(cs) = "," THEN <<tok>> \o split(Tail(cs), <<>>)
  ELSE split(Tail(cs), Append(tok, Head(cs)))

\* val.toString(): a string is itself, an array joins its elements with ','
toString(val) ==
  IF val.t = "array" THEN join([i \in DOMAIN val.v |-> val.v[i].v], ",") ELSE val.v

\* escapeRegExp(str): a backslash in front of every metacharacter
RegExpMeta == {"-", "[", "]", "/", "{", "}", "(", ")", "*", "+", "?", ".", "\\", "^", "$", "|"}

RECURSIVE escapeRegExp(_)
escapeRegExp(cs) ==
  IF cs = <<>> THEN <<>>
  ELSE (IF Head(cs) \in RegExpMeta THEN <<"\\", Head(cs)>> ELSE <<Head(cs)>>)
         \o escapeRegExp(Tail(cs))

\* The digits at the front of cs, as characters
RECURSIVE digitsOf(_)
digitsOf(cs) ==
  IF cs # <<>> /\ Head(cs) \in DOMAIN DigitVal THEN <<Head(cs)>> \o digitsOf(Tail(cs))
  ELSE <<>>

RECURSIVE dropTrailingZeros(_)
dropTrailingZeros(ds) ==
  IF ds # <<>> /\ ds[Len(ds)] = "0" THEN dropTrailingZeros(SubSeq(ds, 1, Len(ds) - 1))
  ELSE ds

\* parseFloat(v): leading whitespace and sign, digits, '.' and digits;
\* trailing text ignored, NaN when there is no digit
parseFloat(cs) ==
  LET t == trimLeft(cs)
      neg == t # <<>> /\ Head(t) = "-"
      body == IF t # <<>> /\ Head(t) \in {"-", "+"} THEN Tail(t) ELSE t
      int == digitsOf(body)
      rest == SubSeq(body, Len(int) + 1, Len(body))
      frac == IF rest # <<>> /\ Head(rest) = "." THEN digitsOf(Tail(rest)) ELSE <<>>
      n == leadingDigits(int, 0, FALSE).val
  IN IF int = <<>> /\ frac = <<>> THEN JNaN
     ELSE IF dropTrailingZeros(frac) = <<>> THEN JNum(IF neg THEN 0 - n ELSE n)
     ELSE JFrac(neg, n, dropTrailingZeros(frac))

\* toLowerCase() on one character
lowerChar(c) ==
  CASE c = "A" -> "a" [] c = "D" -> "d" [] c = "N" -> "n" [] c = "O" -> "o"
    [] c = "R" -> "r" [] OTHER -> c

\* .toLowerCase().replace(/[@\s]/g, '')
RECURSIVE lowerStripped(_)
lowerStripped(cs) ==
  IF cs = <<>> THEN <<>>
  ELSE IF Head(cs) \in {"@", " "} THEN lowerStripped(Tail(cs))
  ELSE <<lowerChar(Head(cs))>> \o lowerStripped(Tail(cs))

Logical == <<"l", "o", "g", "i", "c", "a", "l">>

\* req.query.logical || 'and'
logicalOf(query) ==
  IF Logical \in DOMAIN query /\ (query[Logical].t = "array" \/ truthy(query[Logical]))
  THEN query[Logical] ELSE JStr(<<"a", "n", "d">>)

\* `$${(req.query.logical || 'and').toLowerCase().replace(/[@\s]/g, '')}`
logicalOperator(query) == <<"$">> \o lowerStripped(logicalOf(query).v)

KnownTypes == {"bool", "boolean", "string", "regex", "integer", "float"}

\* The if/else chain on the param type: the value one token becomes
transformed(type, v) ==
  CASE type \in {"bool", "boolean"} ->
         JBool(v \in {<<"t", "r", "u", "e">>, <<"y", "e", "s">>, <<"1">>})
    [] type = "string" -> JStr(v)
    [] type = "regex" -> JRegex(escapeRegExp(v))
    [] type = "integer" -> parseInt(JStr(v))
    [] type = "float" -> parseFloat(v)

OrKey == <<"$", "o", "r">>

\* The tail of the forEach callback: $or over every value, in order, for
\* every token, single ones included
filterOfAlwaysOr(key, vals) ==
  Obj(OrKey, [i \in DOMAIN vals |-> Obj(key, vals[i])])

\* The tail of the forEach callback: the filter of one param from its values
filterOf(key, vals) ==
  IF Len(vals) = 1
  THEN Obj(key, IF vals[1].t = "string" /\ vals[1].v = <<"[", "]">>
                THEN JArr(<<>>) ELSE vals[1])
  ELSE Obj(OrKey, [i \in DOMAIN vals |-> Obj(key, vals[i])])

\* The forEach callback on one picked param: the filters it pushes on `queries`
pushed(key, type, val) ==
  LET vals == split(toString(val), <<>>) IN
  IF (val.t = "string" /\ val.v = <<"*">>) \/ type \notin KnownTypes THEN <<>>
  ELSE << filterOf(key, [i \in DOMAIN vals |-> transformed(type, vals[i])]) >>

\* _.forEach over _.pick(req.query, _.keys(this.queryParams)): the picked
\* params come in the order of the keys of queryParams
RECURSIVE queriesOf(_, _)
queriesOf(queryParams, query) ==
  IF queryParams = <<>> THEN <<>>
  ELSE (IF Head(queryParams).key \in DOMAIN query
        THEN pushed(Head(queryParams).key, Head(queryParams).type,
                    query[Head(queryParams).key])
        ELSE <<>>)
         \o queriesOf(Tail(queryParams), query)

\* The older Controller: the value 'all' is ignored, '[]' is not special
filterOfOlder(key, vals) ==
  IF Len(vals) = 1 THEN Obj(key, vals[1])
  ELSE Obj(OrKey, [i \in DOMAIN vals |-> Obj(key, vals[i])])

pushedOlder(key, type, val) ==
  LET vals == split(toString(val), <<>>) IN
  IF (val.t = "string" /\ val.v = <<"a", "l", "l">>) \/ type \notin KnownTypes THEN <<>>
  ELSE << filterOfOlder(key, [i \in DOMAIN vals |-> transformed(type, vals[i])]) >>

RECURSIVE queriesOfOlder(_, _)
queriesOfOlder(queryParams, query) ==
  IF queryParams = <<>> THEN <<>>
  ELSE (IF Head(queryParams).key \in DOMAIN query
        THEN pushedOlder(Head(queryParams).key, Head(queryParams).type,
                         query[Head(queryParams).key])
        ELSE <<>>)
         \o queriesOfOlder(Tail(queryParams), query)

Returned(value) == [threw |-> FALSE, value |-> value]
Thrown == [threw |-> TRUE, value |-> EmptyObject]

\* parseQueryParams(req) with this.queryParams: the object returned, or the
\* TypeError of calling toLowerCase on a value that is not a string
parseQueryParams(queryParams, query) ==
  IF queryParams.t = "undefined" THEN Returned(EmptyObject)
  ELSE IF logicalOf(query).t # "string" THEN Thrown
  ELSE LET queries == queriesOf(queryParams.v, query) IN
       IF Len(queries) = 1 THEN Returned(queries[1])
       ELSE IF Len(queries) > 0 THEN Returned(Obj(logicalOperator(query), queries))
       ELSE Returned(EmptyObject)

\* parseQueryParams(req) of the older Controller
parseQueryParamsOlder(queryParams, query) ==
  IF queryParams.t = "undefined" THEN Returned(EmptyObject)
  ELSE IF logicalOf(query).t # "string" THEN Thrown
  ELSE LET queries == queriesOfOlder(queryParams.v, query) IN
       IF Len(queries) = 1 THEN Returned(queries[1])
       ELSE IF Len(queries) > 0 THEN Returned(Obj(logicalOperator(query), queries))
       ELSE Returned(EmptyObject)

\* this.parseQueryParams(req) on a controller of either revision
parseQueryParamsOf(controller, query) ==
  IF controller.revision = "older"
  THEN parseQueryParamsOlder(controller.queryParams, query)
  ELSE parseQueryParams(controller.queryParams, query)

\* ------------------------------------------------------------ SpecFilter
\* One controller with a queryParams declaration and one request whose
\* action calls parseQueryParams(req)
K(c) == <<c>>
FilterKeys == {K("s"), K("n")}
FilterTypes == KnownTypes \cup {"like"}

\* this.queryParams: not set, or an object of at most one type per key
QueryParamsSet ==
  {JUndef} \cup
  {JObj(ps) : ps \in {p \in SeqsUpTo([key : FilterKeys, type : FilterTypes], 2) :
                        \A i, j \in DOMAIN p : i # j => p[i].key # p[j].key}}

S(cs) == JStr(cs)

\* Values of a query parameter as Express parses them: a string, or an
\* array of strings for a repeated parameter
ValuesOfS ==
  { S(<<"5">>), S(<<"5", ",", "6">>), S(<<"*">>), S(<<"[", "]">>), S(<<"a", ".", "b">>),
    S(<<"y", "e", "s", ",", "n", "o">>), S(<<"5", ".", "7", "x">>),
    JArr(<<S(<<"6">>), S(<<"5">>)>>) }
ValuesOfN ==
  { S(<<"7">>), S(<<>>), S(<<"-", "3", ",", "x">>), S(<<"a", "l", "l">>), JArr(<<S(<<"*">>)>>) }
ValuesOfZ == { S(<<"1">>) }
ValuesOfLogical ==
  { S(<<"o", "r">>), S(<<"@", "N", "O", "R", " ">>), JArr(<<S(<<"o", "r">>), S(<<"a", "n", "d">>)>>) }

ValuesOf(key) ==
  CASE key = K("s") -> ValuesOfS
    [] key = K("n") -> ValuesOfN
    [] key = K("z") -> ValuesOfZ
    [] key = Logical -> ValuesOfLogical

\* req.query: any subset of the keys s, n, z, logical, each with one of its values
QuerySet ==
  UNION { {q \in [ks -> UNION {ValuesOf(k) : k \in ks}] : \A k \in ks : q[k] \in ValuesOf(k)} :
          ks \in SUBSET (FilterKeys \cup {K("z"), Logical}) }

NoFilter == Returned(EmptyObject)

InitFilter ==
  /\ \E qp \in QueryParamsSet : controllers = << [queryParams |-> qp, revision |-> "src"] >>
  /\ InitRouter
  /\ req = << [st |-> "idle", query |-> EmptyObject, filter |-> NoFilter] >>

\* A request arrives with its query string parsed
ReceiveFilter ==
  /\ req[1].st = "idle"
  /\ \E q \in QuerySet : req' = [req EXCEPT ![1].st = "run", ![1].query = q]
  /\ UNCHANGED <<controllers, routes, stack, calls, ctl>>

\* The action calls this.parseQueryParams(req)
ParseQueryParams ==
  /\ req[1].st = "run"
  /\ req' = [req EXCEPT ![1].st = "parsed",
                        ![1].filter = parseQueryParamsOf(controllers[1], req[1].query)]
  /\ UNCHANGED <<controllers, routes, stack, calls, ctl>>

NextFilter ==
  \/ ReceiveFilter
  \/ ParseQueryParams

SpecFilter == InitFilter /\ [][NextFilter]_vars

\* The same with a controller of either revision of Controller
InitFilterRev ==
  /\ \E qp \in QueryParamsSet, revision \in {"src", "older"} :
       controllers = << [queryParams |-> qp, revision |-> revision] >>
  /\ InitRouter
  /\ req = << [st |-> "idle", query |-> EmptyObject, filter |-> NoFilter] >>

SpecFilterRev == InitFilterRev /\ [][NextFilter]_vars

\* ------------------------------------------------------------------ C19
\* The keys of this.queryParams
keysOf(queryParams) ==
  IF queryParams.t = "undefined" THEN {}
  ELSE {queryParams.v[i].key : i \in DOMAIN queryParams.v}

\* The field names of a filter: its keys that are not operators, at any depth
RECURSIVE fieldNames(_)
fieldNames(filter) ==
  UNION { IF Head(k) = "$"
          THEN UNION {fieldNames(filter[k][i]) : i \in DOMAIN filter[k]}
          ELSE {k} : k \in DOMAIN filter }

\* The query without the keys that queryParams does not declare
declaredOnly(queryParams, query) ==
  [k \in DOMAIN query \cap keysOf(queryParams) |-> query[k]]

\* C19: parseQueryParams returns, without throwing, a filter whose field
\* names are keys of both queryParams and the query, and the same filter as
\* for the query without the keys that queryParams does not declare
C19_SchemaKeysOnly ==
  req[1].st = "parsed" =>
    LET queryParams == controllers[1].queryParams
        query == req[1].query
    IN /\ ~req[1].filter.threw
       /\ fieldNames(req[1].filter.value) \subseteq keysOf(queryParams) \cap DOMAIN query
       /\ req[1].filter = parseQueryParams(queryParams, declaredOnly(queryParams, query))

\* ------------------------------------------------------------------ C20
\* The clauses as the claim names them
Equality(field, value) == Obj(field, value)
Or(equalities) == Obj(OrKey, equalities)

\* The filter is the clause, or a group of clauses that has it
hasClause(filter, clause) ==
  \/ filter = clause
  \/ \E op \in DOMAIN filter :
       /\ Head(op) = "$"
       /\ \E i \in DOMAIN filter[op] : filter[op][i] = clause

\* The declared keys that the query has: the participating keys
participating(queryParams, query) ==
  {p \in {queryParams.v[i] : i \in DOMAIN queryParams.v} : p.key \in DOMAIN query}

withClause(queryParams, query) ==
  {p \in participating(queryParams, query) :
     /\ p.type \in KnownTypes
     /\ ~(query[p.key].t = "string" /\ query[p.key].v = <<"*">>)}

parsePagination(query) ==
  LET offset == or(parseInt(or(query.offset, query.skip)), JNum(0))
      limit == or(parseInt(or(query.limit, query.count)), JNum(0))
      page == or(parseInt(query.page), JNum(0))
  IN [offset |-> skipOf(offset, limit, page), limit |-> limit, page |-> page]

\* Values of page, offset/skip and limit/count: missing, zero, positive,
\* negative, not a number
PageValues == {JUndef, JStr(<<"0">>), JStr(<<"5">>), JStr(<<"2">>), JStr(<<"-", "2">>), JStr(<<"x">>)}
OffsetValues == {JUndef, JStr(<<"0">>), JStr(<<"5", "0">>), JStr(<<"-", "3">>), JStr(<<"x">>)}
SkipValues == {JUndef, JStr(<<"7">>)}
LimitValues == {JUndef, JStr(<<"0">>), JStr(<<"2", "5">>), JStr(<<"1", "0">>), JStr(<<"-", "1">>), JStr(<<"x">>)}
CountValues == {JUndef, JStr(<<"4">>)}

PagingQueries ==
  {[EmptyQuery EXCEPT !.page = pg, !.offset = o, !.skip = sk, !.limit = l, !.count = c] :
     pg \in PageValues, o \in OffsetValues, sk \in SkipValues, l \in LimitValues,
     c \in CountValues}

Unparsed == [offset |-> JUndef, limit |-> JUndef, page |-> JUndef]

InitPaging ==
  /\ controllers = <<>>
  /\ InitRouter
  /\ \E q \in PagingQueries : req = << [st |-> "run", query |-> q, paging |-> Unparsed] >>

\* The action calls this.parseSkipLimitSortOrder(req) (src/controller.js)
ParseSkipLimitSortOrder ==
  /\ req[1].st = "run"
  /\ LET p == parseSkipLimitSortOrder(req[1].query) IN
     req' = [req EXCEPT ![1].st = "parsed",
                        ![1].paging = [offset |-> p.skip, limit |-> p.limit, page |-> p.page]]
  /\ UNCHANGED <<controllers, routes, stack, calls, ctl>>

\* The action calls this.parsePagination(req) (the newest Controller)
ParsePagination ==
  /\ req[1].st = "run"
  /\ req' = [req EXCEPT ![1].st = "paged", ![1].paging = parsePagination(req[1].query)]
  /\ UNCHANGED <<controllers, routes, stack, calls, ctl>>

NextPaging ==
  \/ ParseSkipLimitSortOrder
  \/ ParsePagination

SpecPaging == InitPaging /\ [][NextPaging]_vars

\* ------------------------------------------------------------------ C21
\* The keys that get a clause, in the order of the keys of queryParams
clauseKeys(queryParams, query) ==
  IF queryParams.t = "undefined" THEN <<>>
  ELSE LET WithClause(p) == p \in withClause(queryParams, query)
       IN SelectSeq(queryParams.v, WithClause)

\* The filter is one clause of the field: an Equality or an Or over the field
clauseOfField(filter, field) ==
  \/ DOMAIN filter = {field}
  \/ /\ DOMAIN filter = {OrKey}
     /\ \A i \in DOMAIN filter[OrKey] : DOMAIN filter[OrKey][i] = {field}

\* The filter combines the clauses of the keys as the claim says: nothing
\* for no key, the clause itself for one key, one group under the operator
\* of the logical parameter for more, with the clauses in key order
combinedAsClaimed(filter, keys, query) ==
  CASE Len(keys) = 0 -> filter = EmptyObject
    [] Len(keys) = 1 -> clauseOfField(filter, keys[1].key)
    [] OTHER ->
         /\ DOMAIN filter = {logicalOperator(query)}
         /\ DOMAIN filter[logicalOperator(query)] = DOMAIN keys
         /\ \A i \in DOMAIN keys :
              clauseOfField(filter[logicalOperator(query)][i], keys[i].key)

\* C21: parseQueryParams returns the empty object when no key has a clause,
\* the clause alone when one key has, whatever the logical parameter is, and
\* for two or more keys one group keyed by "$" and the lowercased logical
\* parameter without "@" and whitespace ("and" by default), with every
\* clause in key order
C21_Combined ==
  req[1].st = "parsed" =>
    /\ ~req[1].filter.threw
    /\ combinedAsClaimed(req[1].filter.value,
                         clauseKeys(controllers[1].queryParams, req[1].query),
                         req[1].query)

\* ------------------------------------------------------------------ C22
\* C22: when parseQueryParams returns, every participating key whose value
\* is the string "[]" has the clause Equality(field, empty array), whatever
\* its declared type
C22_EmptyArraySentinel ==
  (req[1].st = "parsed" /\ ~req[1].filter.threw /\ controllers[1].queryParams.t # "undefined") =>
    \A p \in participating(controllers[1].queryParams, req[1].query) :
      req[1].query[p.key] = S(<<"[", "]">>) =>
        hasClause(req[1].filter.value, Equality(p.key, JArr(<<>>)))

\* ------------------------------------------------------------------ C23
\* The query without one key
without(query, key) == [k \in DOMAIN query \ {key} |-> query[k]]

\* C23: in every revision a declared field with the value "*" is
\* not mentioned in the filter, and the filter is the one of the query
\* without the field
C23_StarOmitted ==
  (req[1].st = "parsed" /\ controllers[1].queryParams.t # "undefined") =>
    \A p \in participating(controllers[1].queryParams, req[1].query) :
      req[1].query[p.key] = S(<<"*">>) =>
        /\ p.key \notin fieldNames(req[1].filter.value)
        /\ req[1].filter = parseQueryParamsOf(controllers[1], without(req[1].query, p.key))

\* ------------------------------------------------------------------ C24
\* The request's pagination has been resolved, by either revision
resolved == req[1].st \in {"parsed", "paged"}

\* C24: when the resolved limit is 0 the resolved page is 1, and the offset
\* is 0 when the query gives a page
C24_LimitZeroPageOne ==
  (resolved /\ req[1].paging.limit = JNum(0)) =>
    /\ req[1].paging.page = JNum(1)
    /\ req[1].query.page # JUndef => req[1].paging.offset = JNum(0)

\* ------------------------------------------------------------------ C25
\* ceil(a / b) for b > 0
ceilDiv(a, b) == 0 - ((0 - a) \div b)

\* C25: when the query gives no positive page and the resolved limit is
\* greater than 0, the resolved page is ceil((offset + 1) / limit)
C25_PageBackComputed ==
  (resolved /\ ~(parseInt(req[1].query.page).t = "number" /\ parseInt(req[1].query.page).v > 0)
            /\ req[1].paging.limit.v > 0) =>
    req[1].paging.page = JNum(ceilDiv(req[1].paging.offset.v + 1, req[1].paging.limit.v))

\* ------------------------------------------------------------------ C26
\* C26: for every query the resolved page, offset and limit are integers
\* with page >= 1, offset >= 0 and limit >= 0
C26_PagingRanges ==
  resolved =>
    /\ \A f \in {"page", "offset", "limit"} : req[1].paging[f].t = "number"
    /\ req[1].paging.page.v >= 1
    /\ req[1].paging.offset.v >= 0
    /\ req[1].paging.limit.v >= 0

\* ------------------------------------------------------------------ C27
\* C27: for every request at most one pass invokes an action and invokes it
\* once, and no pass follows a pass whose end stage ran finalResponse
C27_OneAction ==
  \A r \in DOMAIN req :
    LET passes == req[r].passes IN
    /\ \A n \in DOMAIN passes : passes[n].action <= 1
    /\ \A m, n \in DOMAIN passes : (passes[m].action >= 1 /\ passes[n].action >= 1) => m = n
    /\ \A m, n \in DOMAIN passes : m < n => passes[m].final = 0

\* ------------------------------------------------------------------ C28
\* C28: a call of addControllerRoutes that follows another one on the same
\* router with the same controllers connects no route and leaves
\* router.routes as it was
C28_Idempotent == [][calls >= 1 => (routes' = routes /\ stack' = stack)]_vars

\* ------------------------------------------------------------------ C29
\* C29: an error that throwError(message, status) raises in a route action
\* is answered with meta.statusCode equal to status, and the response
\* written for it has that HTTP status
C29_ThrownStatus ==
  \A x \in PassIds :
    LET p == passOf(x) IN
    (p.action >= 1 /\ p.error = 1 /\ p.errIn.name = "Error"
       /\ p.errIn.status.t = "number" /\ p.errIn.statusCode = JUndef) =>
      /\ p.envOut.meta.statusCode = p.errIn.status
      /\ (x[2] = 1 /\ req[x[1]].written # <<>>) => req[x[1]].written[1].status = p.errIn.status

\* ------------------------------------------------------------- SpecAlias
\* The Router that aliases PATCH to PUT (part_002, part_003): its first
\* layer is router.patch('*', ...), ahead of every controller route
AliasLayer ==
  [method |-> "patch", path |-> "*", ctrl |-> 0, route |-> 0,
   chain |-> << [group |-> "router", fn |-> "patchAlias"] >>]

\* Faulty variant: the alias calls next() and leaves the method alone
patchAliasKeepsMethod(q) == next(started(q), NoErr)

\* (req, res, next) => { req.method = 'PUT'; next(); }
patchAliasOn(q) == next([started(q) EXCEPT !.method = "PUT"], NoErr)

patchAlias(r) ==
  /\ at(r) /\ cur(req[r]).fn = "patchAlias"
  /\ req' = [req EXCEPT ![r] = patchAliasOn(req[r])]
  /\ UNCHANGED <<controllers, routes, stack, calls, ctl>>

AliasMenu ==
  { << Controller(<< Route("PATCH", "/a"), Route("PUT", "/a") >>) >>,
    << Controller(<< Route("PUT", "/a"), Route("patch", "/a") >>) >>,
    << Controller(<< Route("PATCH", "/a") >>), Controller(<< Route("PUT", "/b") >>) >>,
    << Controller(<< Route("PATCH", "/b"), Route("ALL", "/b"), Route("GET", "/a") >>) >> }

AliasInputs ==
  {Input(m, p, a, EmptyQuery, {}, <<>>) :
     m \in {"PATCH", "PUT", "GET"}, p \in {"/a", "/b"},
     a \in {"application/json", "text/plain"}}

\* The router after construction and one call of addControllerRoutes
InitAlias ==
  /\ controllers \in AliasMenu
  /\ calls = 1
  /\ ctl = [c \in 1..Len(controllers) |-> newController]
  /\ LET acc == forEachRoute([paths |-> [p \in LowerPaths |-> Undefined],
                              routes |-> <<>>, stack |-> <<AliasLayer>>], 1, 1)
     IN routes = acc.routes /\ stack = acc.stack
  /\ req = [r \in 1..1 |-> IdleReq]

ReceiveAlias == \E r \in DOMAIN req : receive(r, AliasInputs)
PatchAlias == \E r \in DOMAIN req : patchAlias(r)
ActionNextAlias ==
  \E r \in DOMAIN req : actionNext(r, {Result(200, "rows")}, {Plain(<<"boom">>, JUndef)})

NextAlias ==
  \/ ReceiveAlias
  \/ PatchAlias
  \/ Handler
  \/ ActionNextAlias
  \/ SuccessResponse
  \/ ErrorResponse
  \/ FinalResponse

SpecAlias == InitAlias /\ [][NextAlias]_vars

\* ------------------------------------------------------------------ C30
\* The layers the controllers connected for the method patch
patchLayers == {l \in DOMAIN stack : stack[l].method = "patch" /\ stack[l] # AliasLayer}

\* The layers connected for put that match the path of the request
putLayers(q) == {l \in DOMAIN stack : stack[l].method = "put" /\ stack[l].path = toLowerCase(q.path)}

\* C30: a request that arrives as PATCH has the method PUT from the alias
\* layer on, the chain connected for (put, path) serves it, and no request
\* ever enters a chain that a controller connected for patch
C30_PatchIsPut ==
  \A r \in DOMAIN req :
    LET q == req[r] IN
    /\ \A n \in DOMAIN q.passes : q.passes[n].layer \notin patchLayers
    /\ (q.methodIn = "PATCH" /\ q.st # "idle") =>
         /\ q.passes # <<>> /\ stack[q.passes[1].layer] = AliasLayer
         /\ (Len(q.passes) > 1 \/ q.st = "done") => q.method = "PUT"
         /\ \A n \in DOMAIN q.passes : n > 1 => q.passes[n].layer \in putLayers(q) \/ stack[q.passes[n].layer].method = "all"
         /\ (q.st = "done" /\ putLayers(q) # {}) =>
              \E n \in DOMAIN q.passes : q.passes[n].layer \in putLayers(q) /\ q.passes[n].action = 1

\* A PATCH request was served by the chain connected for (put, /a) although a
\* chain is connected for (patch, /a)
C30_Witness ==
  \E r \in DOMAIN req :
    /\ req[r].methodIn = "PATCH" /\ req[r].method = "PUT" /\ req[r].st = "done"
    /\ \E l \in patchLayers : stack[l].path = toLowerCase(req[r].path)
    /\ \E n \in DOMAIN req[r].passes :
         req[r].passes[n].layer \in putLayers(req[r]) /\ req[r].passes[n].final = 1
====
